---- MODULE Spec2Model ----
(***************************************************************************)
(* QKeithleySweep (modules/QKeithleySweep.py): the sweep widget of         *)
(* QKeithleyControl.  The foreground (Qt GUI thread) runs the handlers of  *)
(* the measure button's QStateMachine, of Configure Sweep and of Save      *)
(* Traces; each accepted start spawns a threading.Thread that executes     *)
(* _exec_sweep_thread.  Handlers and worker steps interleave at the        *)
(* blocking calls of the code (instrument I/O, sleep, join).               *)
(***************************************************************************)
EXTENDS Integers, Sequences, FiniteSets, TLC

\* ---------------------------------------------------------------- bounds
\* worker threads started in one session
MaxRuns == 2
\* npts values offered to Configure Sweep (the spin box allows 1..100)
MaxPoints == 2
\* npts values and start/stop range the plan generator is checked on
GenPoints == 4
GenRange == 2

\* ------------------------------------------------------------ value sets
\* self.keithley is None until a handle is set
NoKeithley == "None"
Handles == {NoKeithley, "K"}
Modes == {"Voltage", "Current"}
\* self.delay.value(), in units of 0.1 s: the spin box is left at the value
\* setValue(0.1) gives it (with 0 the worker only skips the sleep)
delay == 1
\* replies of keithley.meas(), parsed: <<voltage, current>>
Readings == {<<2, 3>>}
\* values of the Number of Points spin box, the Hysteresis check box and the
\* Sweep Start / Sweep Stop / Compliance selectors that Configure is pressed
\* with; a 1-point array reads as "no plan" (SweepNotEmptyList), like []
PointValues == 2..MaxPoints
HistValues == {FALSE}
StartValues == {0}
StopValues == {1}
CmplValues == {1}
\* plan values are exact fractions <<numerator, denominator>>
Zero == <<0, 1>>

\* ------------------------------------------------------- plan generation
\* np.linspace(float(_start), float(_stop), int(_points)): _points evenly
\* spaced values from _start to _stop, both included
linspace(_start, _stop, _points) ==
    IF _points = 1
    THEN << <<_start, 1>> >>
    ELSE [i \in 1.._points |->
            <<_start * (_points - 1) + (i - 1) * (_stop - _start), _points - 1>>]

\* the slice _[-2::-1]: from the second-last element down to the first
SliceRev2(s) == [i \in 1..(Len(s) - 1) |-> s[Len(s) - i]]

\* a generator whose return leg drops the first element too
Mut_set_sweep_params(_start, _stop, _points, _hist) ==
    LET f == linspace(_start, _stop, _points)
    IN  IF _hist /\ _points >= 2
        THEN f \o [i \in 1..(Len(f) - 2) |-> f[Len(f) - i]]
        ELSE f

\* _set_sweep_params: the value assigned to self.sweep
_set_sweep_params(_start, _stop, _points, _hist) ==
    LET f == linspace(_start, _stop, _points)
    IN  IF _hist THEN f \o SliceRev2(f) ELSE f

\* self.sweep != []  --  [] != [] is False for the initial list; for an
\* ndarray the comparison is elementwise: a 1-element array broadcasts
\* against the empty list to an empty array, which is falsy; a longer array
\* cannot be broadcast and the comparison yields the scalar True.
SweepNotEmptyList(sw) ==
    IF Len(sw) = 0 THEN FALSE
    ELSE IF Len(sw) = 1 THEN FALSE
    ELSE TRUE

\* _get_sweep_params; Python's None is written <<>> (a returned plan is
\* never empty)
_get_sweep_params(sw) == IF SweepNotEmptyList(sw) THEN sw ELSE <<>>

\* ----------------------------------------------------------------- state
VARIABLES
    keithley,        \* self.keithley: NoKeithley or an instrument handle
    sweep,           \* self.sweep: [] or the ndarray of the last Configure
    args,            \* the arguments _set_sweep_params was last called with
    _data,           \* self._data: the trace store, a list of records
    bufs,            \* the lists bound to self._time/_voltage/_current
    thread_running,  \* self.thread_running: "unset", "True" or "False"
    thread,          \* self.thread: number of the last started worker, 0 = no attribute
    workers,         \* the threads started so far: position and locals of each,
                     \* and the number of records it has appended (recs)
    mode,            \* self.mode.currentText()
    hlist,           \* self.plot.hlist: 0 when it is [], 1 when it holds handles
    meas_state,      \* active state of self.meas_state
    save_enabled,    \* self.save_button.isEnabled()
    clicks,          \* clicked signals posted to the GUI thread by workers
    gui,             \* position of the GUI thread: "loop", "run_flag", "join"
    io,              \* instrument commands issued by the last step
    msg,             \* text of the message box shown by the last step
    fout,            \* text written to a file by the last step
    user_abort       \* the user's last click on the measure button was an
                     \* abort issued while a worker was alive and the
                     \* instrument handle was attached

vars == <<keithley, sweep, args, _data, bufs, thread_running, thread, workers,
          mode, hlist, meas_state, save_enabled, clicks, gui, io,
          msg, fout, user_abort>>

Threads == 1..MaxRuns

\* threading.Thread.is_alive(): started and run() not yet returned or raised
Dead == {"unborn", "done", "aborted", "crashed"}
Alive(w) == workers[w].pc \notin Dead

NewBufs == [t |-> <<>>, V |-> <<>>, I |-> <<>>]
NoWorker == [pc |-> "unborn", loop |-> "-", plan |-> <<>>, idx |-> 0,
             recs |-> 0]

\* rebinding self._time, self._voltage, self._current to fresh lists: the
\* stored records keep the old list objects, which nothing appends to again
Rebound(d) == [i \in 1..Len(d) |-> [d[i] EXCEPT !.alias = FALSE]]

\* "if self.plot.hlist == []: self._data = []"
Consistent(d) == IF hlist = 0 THEN <<>> ELSE d

Quiet == io' = <<>> /\ msg' = "" /\ fout' = <<>>

Init ==
    /\ keithley = NoKeithley
    /\ sweep = <<>>
    /\ args = <<>>
    /\ _data = <<>>
    /\ bufs = NewBufs
    /\ thread_running = "unset"
    /\ thread = 0
    /\ workers = [w \in Threads |-> NoWorker]
    /\ mode = "Voltage"
    /\ hlist = 0
    /\ meas_state = "meas_stop"
    /\ save_enabled = TRUE
    /\ clicks = 0
    /\ gui = "loop"
    /\ io = <<>>
    /\ msg = ""
    /\ fout = <<>>
    /\ user_abort = FALSE

\* ------------------------------------------------------------ foreground
\* _set_keithley_handle
_set_keithley_handle(k) ==
    /\ gui = "loop"
    /\ keithley' = k
    /\ Quiet
    /\ UNCHANGED <<sweep, args, _data, bufs, thread_running, thread, workers,
                   mode, hlist, meas_state, save_enabled, clicks, gui, user_abort>>

\* the user picks an item of the Sweep Mode combo box; _update_sweep_control
\* only relabels the unit selectors
_update_sweep_control(m) ==
    /\ gui = "loop"
    /\ mode' = m
    /\ Quiet
    /\ UNCHANGED <<keithley, sweep, args, _data, bufs, thread_running, thread,
                   workers, hlist, meas_state, save_enabled, clicks,
                   gui, user_abort>>

\* the user resets the plot: the plot widget drops every handle
ClearPlot ==
    /\ gui = "loop"
    /\ hlist > 0
    /\ hlist' = 0
    /\ Quiet
    /\ UNCHANGED <<keithley, sweep, args, _data, bufs, thread_running, thread,
                   workers, mode, meas_state, save_enabled, clicks,
                   gui, user_abort>>

\* the two instrument calls of _config_sweep_measurement for the mode m
ConfigCommands(m, cmpl) ==
    IF m = "Voltage"
    THEN << [op |-> "voltage_src", arg |-> Zero],
            [op |-> "current_cmp", arg |-> <<cmpl, 1>>] >>
    ELSE << [op |-> "current_src", arg |-> Zero],
            [op |-> "voltage_cmp", arg |-> <<cmpl, 1>>] >>

\* _config_sweep_measurement; with no handle attached the first instrument
\* call raises (None has no such attribute), which ends the handler there
_config_sweep_measurement(_start, _stop, _points, _hist, cmpl) ==
    /\ gui = "loop"
    /\ _data' = Consistent(_data)
    /\ IF keithley # NoKeithley
       THEN /\ io' = ConfigCommands(mode, cmpl)
            /\ sweep' = _set_sweep_params(_start, _stop, _points, _hist)
            /\ args' = <<_start, _stop, _points, _hist>>
            /\ msg' = "Sweep Parameters Updated"
       ELSE /\ io' = <<>>
            /\ msg' = ""
            /\ UNCHANGED <<sweep, args>>
    /\ fout' = <<>>
    /\ UNCHANGED <<keithley, bufs, thread_running, thread, workers, mode, hlist, meas_state, save_enabled, clicks, gui,
                   user_abort>>

\* _exec_sweep_stop, the entered handler of meas_stop
_exec_sweep_stop ==
    /\ meas_state' = "meas_stop"
    /\ Quiet
    /\ IF _get_sweep_params(sweep) # <<>> /\ keithley # NoKeithley
       THEN /\ save_enabled' = TRUE
            /\ thread_running' = "False"
            \* self.thread.join(): raises when no thread was ever started
            /\ gui' = IF thread = 0 THEN "loop" ELSE "join"
       ELSE UNCHANGED <<save_enabled, thread_running, gui>>
    /\ UNCHANGED <<thread, workers, _data, bufs>>

\* line 378, once join has returned: "Zero storage arrays"
JoinReturns ==
    /\ gui = "join"
    /\ ~Alive(thread)
    /\ gui' = "loop"
    /\ bufs' = NewBufs
    /\ _data' = Rebound(_data)
    /\ Quiet
    /\ UNCHANGED <<keithley, sweep, args, thread_running, thread, workers,
                   mode, hlist, meas_state, save_enabled, clicks,
                   user_abort>>

\* the worker started by _exec_sweep_run
StartedWorker == [NoWorker EXCEPT !.pc = "begin"]

\* the handler without its self.meas_button.click(): a rejected start leaves
\* the machine in meas_run
Mut_exec_sweep_run ==
    /\ io' = <<>>
    /\ fout' = <<>>
    /\ meas_state' = "meas_run"
    /\ IF _get_sweep_params(sweep) # <<>>
       THEN /\ msg' = ""
            /\ IF keithley # NoKeithley
               THEN /\ thread < MaxRuns
                    /\ save_enabled' = FALSE
                    /\ thread' = thread + 1
                    /\ workers' = [workers EXCEPT ![thread + 1] = StartedWorker]
                    /\ gui' = "run_flag"
               ELSE UNCHANGED <<save_enabled, thread, workers, gui>>
       ELSE /\ msg' = "Sweep not configured"
            /\ UNCHANGED <<save_enabled, thread, workers, gui>>
    /\ UNCHANGED <<thread_running, _data, bufs>>

\* _exec_sweep_run, the entered handler of meas_run, up to thread.start().
\* With no plan the handler clicks the button itself: the machine is busy,
\* so the click is queued and taken after the message box, in meas_run; it
\* re-enters meas_stop, whose handler finds no plan either.
_exec_sweep_run ==
    /\ io' = <<>>
    /\ fout' = <<>>
    /\ IF _get_sweep_params(sweep) # <<>>
       THEN /\ meas_state' = "meas_run"
            /\ msg' = ""
            /\ IF keithley # NoKeithley
               THEN /\ thread < MaxRuns
                    /\ save_enabled' = FALSE
                    /\ thread' = thread + 1
                    /\ workers' = [workers EXCEPT ![thread + 1] = StartedWorker]
                    /\ gui' = "run_flag"
               ELSE UNCHANGED <<save_enabled, thread, workers, gui>>
       ELSE /\ msg' = "Sweep not configured"
            /\ meas_state' = "meas_stop"
            /\ UNCHANGED <<save_enabled, thread, workers, gui>>
    /\ UNCHANGED <<thread_running, _data, bufs>>

\* line 346, after thread.start() has returned
SetThreadRunning ==
    /\ gui = "run_flag"
    /\ thread_running' = "True"
    /\ gui' = "loop"
    /\ Quiet
    /\ UNCHANGED <<keithley, sweep, args, _data, bufs, thread, workers, mode, hlist, meas_state, save_enabled, clicks,
                   user_abort>>

\* the transition the machine takes on a clicked signal
Transition == IF meas_state = "meas_stop" THEN _exec_sweep_run ELSE _exec_sweep_stop

\* the user clicks the measure button
UserClick ==
    /\ gui = "loop"
    /\ Transition
    /\ user_abort' = /\ meas_state = "meas_run"
                     /\ keithley # NoKeithley
                     /\ \E w \in Threads : Alive(w)
    /\ UNCHANGED <<keithley, sweep, args, mode, hlist, clicks>>

\* the GUI thread delivers a clicked signal posted by a worker (line 486)
PostedClick ==
    /\ gui = "loop"
    /\ clicks > 0
    /\ clicks' = clicks - 1
    /\ Transition
    /\ UNCHANGED <<keithley, sweep, args, mode, hlist, user_abort>>

\* str() of a float with an integral value
Str(x) == ToString(x) \o ".0"

RECURSIVE Flatten(_)
Flatten(ss) == IF ss = <<>> THEN <<>> ELSE Head(ss) \o Flatten(Tail(ss))

\* lines 518-521: one row per element of the first column; a column too
\* short for the row raises, which ends the writing there
ExportRow(m, i) ==
    IF i > Len(m.V) THEN << Str(m.t[i]), "\t" >>
    ELSE IF i > Len(m.P) THEN << Str(m.t[i]), "\t", Str(m.V[i]), "\t", Str(m.I[i]), "\t" >>
    ELSE << Str(m.t[i]), "\t", Str(m.V[i]), "\t", Str(m.I[i]), "\t",
            Str(m.P[i]), "\t", "\n" >>

RowsWritten(m) ==
    IF \E i \in 1..Len(m.t) : i > Len(m.V) \/ i > Len(m.P)
    THEN (CHOOSE i \in 1..Len(m.t) :
            /\ i > Len(m.V) \/ i > Len(m.P)
            /\ \A j \in 1..(i - 1) : j <= Len(m.V) /\ j <= Len(m.P))
    ELSE Len(m.t)

\* a block that lacks the two closing newlines
Mut_ExportRecord(m) ==
    << "*sweep", "\n", "t", "\t", "\t", "V", "\t", "\t", "I", "\t", "\t",
       "P", "\t", "\t", "\n" >>
    \o Flatten([i \in 1..RowsWritten(m) |-> ExportRow(m, i)])

\* lines 512-523: the block of one record
ExportRecord(m) ==
    << "*sweep", "\n", "t", "\t", "\t", "V", "\t", "\t", "I", "\t", "\t",
       "P", "\t", "\t", "\n" >>
    \o Flatten([i \in 1..RowsWritten(m) |-> ExportRow(m, i)])
    \o (IF RowsWritten(m) = Len(m.t) /\ Len(m.V) >= Len(m.t) /\ Len(m.P) >= Len(m.t)
        THEN << "\n", "\n" >> ELSE <<>>)

\* a record whose columns all have the length of its first column
Square(m) == Len(m.V) >= Len(m.t) /\ Len(m.P) >= Len(m.t)

\* lines 509-523: the records in store order, up to the first that raises
RECURSIVE ExportText(_)
ExportText(d) ==
    IF d = <<>> THEN <<>>
    ELSE IF Square(Head(d)) THEN ExportRecord(Head(d)) \o ExportText(Tail(d))
    ELSE ExportRecord(Head(d))

\* a save that opens the dialog and writes whatever the store holds
Mut_save_traces(accept) ==
    /\ gui = "loop"
    /\ save_enabled
    /\ _data' = Consistent(_data)
    /\ io' = <<>>
    /\ fout' = IF accept THEN << "\n" >> \o ExportText(_data') ELSE <<>>
    /\ msg' = "Sweep Data Saved"
    /\ UNCHANGED <<keithley, sweep, args, bufs, thread_running, thread,
                   workers, mode, hlist, meas_state, save_enabled,
                   clicks, gui, user_abort>>

\* _save_traces; accept: the file dialog was accepted
_save_traces(accept) ==
    /\ gui = "loop"
    /\ save_enabled
    /\ _data' = Consistent(_data)
    /\ io' = <<>>
    /\ IF Len(_data') > 0
       THEN /\ fout' = IF accept THEN ExportText(_data') ELSE <<>>
            /\ msg' = IF accept /\ \E i \in 1..Len(_data') : ~Square(_data'[i])
                      THEN "" ELSE "Sweep Data Saved"
       ELSE /\ fout' = <<>>
            /\ msg' = "No measurement data"
    /\ UNCHANGED <<keithley, sweep, args, bufs, thread_running, thread,
                   workers, mode, hlist, meas_state, save_enabled,
                   clicks, gui, user_abort>>

\* ---------------------------------------------------------------- worker
\* a thread that has ended: returned after the click ("done"), returned
\* from the else branch ("aborted"), or died of an exception ("crashed")
Ended(how) == [NoWorker EXCEPT !.pc = how]

Cmd(op, arg) == [op |-> op, arg |-> arg]

\* the calls self.keithley.<op>(arg) of `cmds`, made one after the other by
\* worker w, which is at `next` after them.  A call raises with no handle
\* attached (None has no such attribute) or when the instrument fails
\* (fail = k > 0: the k-th call does), and the exception ends the thread.
InstrumentCalls(w, cmds, fail, next) ==
    LET raised == IF keithley = NoKeithley THEN 1 ELSE fail
    IN  IF raised = 0
        THEN /\ workers' = [workers EXCEPT ![w] = next]
             /\ io' = cmds
        ELSE /\ workers' = [workers EXCEPT ![w] = Ended("crashed")]
             /\ io' = SubSeq(cmds, 1, raised - 1)

Raises(fail) == keithley = NoKeithley \/ fail > 0

\* np.multiply(self._voltage, self._current)
Multiply(v, c) == [i \in 1..Len(v) |-> v[i] * c[i]]

\* the dict appended to self._data: t, V and I are the list objects
\* themselves, P is a new array
Record(b) == [t |-> b.t, V |-> b.V, I |-> b.I, P |-> Multiply(b.V, b.I),
              alias |-> TRUE]

\* set_voltage or set_current, by the loop the worker is in
SetBias(loop, value) ==
    Cmd(IF loop = "Voltage" THEN "set_voltage" ELSE "set_current", value)

\* lines 385-394: consistency check, fresh lists, plot handle (add_handle
\* leaves the handle list non-empty), first mode test
WkBegin(w) ==
    /\ workers[w].pc = "begin"
    /\ _data' = Rebound(Consistent(_data))
    /\ bufs' = NewBufs
    /\ hlist' = 1
    /\ workers' = [workers EXCEPT ![w] =
                      IF mode = "Voltage"
                      THEN [@ EXCEPT !.pc = "on", !.loop = "Voltage"]
                      ELSE [@ EXCEPT !.pc = "m2"]]
    /\ Quiet
    /\ UNCHANGED <<keithley, sweep, args, thread_running, thread, mode,
                   meas_state, save_enabled, clicks, gui, user_abort>>

\* line 434: the second mode test, reached when the first one failed or the
\* voltage loop ran out
WkMode2(w) ==
    /\ workers[w].pc = "m2"
    /\ workers' = [workers EXCEPT ![w] =
                      IF mode = "Current"
                      THEN [@ EXCEPT !.pc = "on", !.loop = "Current"]
                      ELSE [@ EXCEPT !.pc = "f_zero", !.loop = "-"]]
    /\ Quiet
    /\ UNCHANGED <<keithley, sweep, args, _data, bufs, thread_running, thread,
                   mode, hlist, meas_state, save_enabled, clicks, gui,
                   user_abort>>

\* lines 397-398 / 436-437: output_on(), then the iterator over the plan;
\* iterating None raises
WkOutputOn(w, fail) ==
    /\ workers[w].pc = "on"
    /\ LET plan == _get_sweep_params(sweep)
       IN  InstrumentCalls(w, << Cmd("output_on", Zero) >>, fail,
              IF plan = <<>> THEN Ended("crashed")
              ELSE [workers[w] EXCEPT !.pc = "iter", !.plan = plan, !.idx = 1])
    /\ msg' = "" /\ fout' = <<>>
    /\ UNCHANGED <<keithley, sweep, args, _data, bufs, thread_running, thread,
                   mode, hlist, meas_state, save_enabled, clicks, gui,
                   user_abort>>

\* a loop that never tests the run flag
Mut_WkIter(w) ==
    /\ workers[w].pc = "iter"
    /\ workers' = [workers EXCEPT ![w] =
          IF @.idx > Len(@.plan)
          THEN IF @.loop = "Voltage" THEN [@ EXCEPT !.pc = "m2"]
               ELSE [@ EXCEPT !.pc = "f_zero"]
          ELSE [@ EXCEPT !.pc = "bias"]]
    /\ Quiet
    /\ UNCHANGED <<keithley, sweep, args, _data, bufs, thread_running, thread,
                   mode, hlist, meas_state, save_enabled, clicks, gui,
                   user_abort>>

\* the for statement and "if self.thread_running"; reading the attribute
\* before it was ever assigned raises
WkIter(w) ==
    /\ workers[w].pc = "iter"
    /\ workers' = [workers EXCEPT ![w] =
          IF @.idx > Len(@.plan)
          THEN IF @.loop = "Voltage" THEN [@ EXCEPT !.pc = "m2"]
               ELSE [@ EXCEPT !.pc = "f_zero"]
          ELSE IF thread_running = "unset" THEN Ended("crashed")
          ELSE IF thread_running = "True" THEN [@ EXCEPT !.pc = "bias"]
          ELSE [@ EXCEPT !.pc = "a_seal"]]
    /\ Quiet
    /\ UNCHANGED <<keithley, sweep, args, _data, bufs, thread_running, thread,
                   mode, hlist, meas_state, save_enabled, clicks, gui,
                   user_abort>>

\* lines 404 / 443: set_voltage(_v) or set_current(_i)
WkSetBias(w, fail) ==
    /\ workers[w].pc = "bias"
    /\ InstrumentCalls(w,
          << SetBias(workers[w].loop, workers[w].plan[workers[w].idx]) >>,
          fail, [workers[w] EXCEPT !.pc = "meas"])
    /\ msg' = "" /\ fout' = <<>>
    /\ UNCHANGED <<keithley, sweep, args, _data, bufs, thread_running, thread,
                   mode, hlist, meas_state, save_enabled, clicks, gui,
                   user_abort>>

\* the three appends of lines 410-412; the elapsed time is not tracked,
\* every stamp is 0
Sampled(b, r) == [t |-> Append(b.t, 0), V |-> Append(b.V, r[1]),
                  I |-> Append(b.I, r[2])]

\* a list object is seen through every record that holds it
Aliased(d, b) == [i \in 1..Len(d) |->
                    IF d[i].alias
                    THEN [d[i] EXCEPT !.t = b.t, !.V = b.V, !.I = b.I]
                    ELSE d[i]]

\* lines 407-418 / 446-457: meas(), the appends, the plot update and the
\* test of the interval; r is the parsed reply
WkMeas(w, r, fail) ==
    /\ workers[w].pc = "meas"
    /\ InstrumentCalls(w, << Cmd("meas", Zero) >>, fail,
          IF delay # 0
          THEN [workers[w] EXCEPT !.pc = "sleep"]
          ELSE [workers[w] EXCEPT !.pc = "iter", !.idx = @ + 1])
    /\ IF Raises(fail)
       THEN UNCHANGED <<bufs, _data>>
       ELSE /\ bufs' = Sampled(bufs, r)
            /\ _data' = Aliased(_data, bufs')
    /\ msg' = "" /\ fout' = <<>>
    /\ UNCHANGED <<keithley, sweep, args, thread_running, thread, mode,
                   hlist, meas_state, save_enabled, clicks, gui, user_abort>>

\* lines 419 / 458: time.sleep returns
WkSleep(w) ==
    /\ workers[w].pc = "sleep"
    /\ workers' = [workers EXCEPT ![w] = [@ EXCEPT !.pc = "iter", !.idx = @ + 1]]
    /\ Quiet
    /\ UNCHANGED <<keithley, sweep, args, _data, bufs, thread_running, thread,
                   mode, hlist, meas_state, save_enabled, clicks, gui,
                   user_abort>>

\* an else branch that appends its record twice
Mut_WkAbortSeal(w) ==
    /\ workers[w].pc = "a_seal"
    /\ _data' = Append(Append(_data, Record(bufs)), Record(bufs))
    /\ workers' = [workers EXCEPT ![w] =
                      [@ EXCEPT !.pc = "a_zero", !.recs = @ + 2]]
    /\ Quiet
    /\ UNCHANGED <<keithley, sweep, args, bufs, thread_running, thread, mode,
                   hlist, meas_state, save_enabled, clicks, gui, user_abort>>

\* lines 423-428 / 462-467: the else branch appends the record
WkAbortSeal(w) ==
    /\ workers[w].pc = "a_seal"
    /\ _data' = Append(_data, Record(bufs))
    /\ workers' = [workers EXCEPT ![w] =
                      [@ EXCEPT !.pc = "a_zero", !.recs = @ + 1]]
    /\ Quiet
    /\ UNCHANGED <<keithley, sweep, args, bufs, thread_running, thread, mode,
                   hlist, meas_state, save_enabled, clicks, gui, user_abort>>

\* lines 429-431 / 468-470: the else branch zeroes the quantity of its own
\* loop, switches the output off and returns
WkAbortOff(w, fail) ==
    /\ workers[w].pc = "a_zero"
    /\ InstrumentCalls(w,
          << SetBias(workers[w].loop, Zero), Cmd("output_off", Zero) >>,
          fail, Ended("aborted"))
    /\ msg' = "" /\ fout' = <<>>
    /\ UNCHANGED <<keithley, sweep, args, _data, bufs, thread_running, thread,
                   mode, hlist, meas_state, save_enabled, clicks, gui,
                   user_abort>>

\* lines 473-474: after the loops, always set_voltage(0.0), then output_off()
WkFinOff(w, fail) ==
    /\ workers[w].pc = "f_zero"
    /\ InstrumentCalls(w,
          << Cmd("set_voltage", Zero), Cmd("output_off", Zero) >>,
          fail, [workers[w] EXCEPT !.pc = "f_seal"])
    /\ msg' = "" /\ fout' = <<>>
    /\ UNCHANGED <<keithley, sweep, args, _data, bufs, thread_running, thread,
                   mode, hlist, meas_state, save_enabled, clicks, gui,
                   user_abort>>

\* lines 477-486: the record is appended and self.meas_button.click() is
\* called from the worker thread: the signal reaches the state machine
\* through a queued connection
WkFinSeal(w) ==
    /\ workers[w].pc = "f_seal"
    /\ _data' = Append(_data, Record(bufs))
    /\ clicks' = clicks + 1
    /\ workers' = [workers EXCEPT ![w] = [@ EXCEPT !.pc = "exit", !.recs = @ + 1]]
    /\ Quiet
    /\ UNCHANGED <<keithley, sweep, args, bufs, thread_running, thread, mode,
                   hlist, meas_state, save_enabled, gui, user_abort>>

\* _exec_sweep_thread returns and the thread ends
WkExit(w) ==
    /\ workers[w].pc = "exit"
    /\ workers' = [workers EXCEPT ![w] = Ended("done")]
    /\ Quiet
    /\ UNCHANGED <<keithley, sweep, args, _data, bufs, thread_running, thread,
                   mode, hlist, meas_state, save_enabled, clicks, gui,
                   user_abort>>

\* one step of _exec_sweep_thread in worker w
_exec_sweep_thread(w) ==
    \/ WkBegin(w)
    \/ WkMode2(w)
    \/ \E fail \in 0..1 : WkOutputOn(w, fail)
    \/ WkIter(w)
    \/ \E fail \in 0..1 : WkSetBias(w, fail)
    \/ \E r \in Readings, fail \in 0..1 : WkMeas(w, r, fail)
    \/ WkSleep(w)
    \/ WkAbortSeal(w)
    \/ \E fail \in 0..2 : WkAbortOff(w, fail)
    \/ \E fail \in 0..2 : WkFinOff(w, fail)
    \/ WkFinSeal(w)
    \/ WkExit(w)

\* ---------------------------------------------------------- specification
Foreground ==
    \/ \E k \in Handles : _set_keithley_handle(k)
    \/ \E m \in Modes : _update_sweep_control(m)
    \/ ClearPlot
    \/ \E a \in StartValues, b \in StopValues, n \in PointValues,
          h \in HistValues, c \in CmplValues :
          _config_sweep_measurement(a, b, n, h, c)
    \/ UserClick
    \/ PostedClick
    \/ SetThreadRunning
    \/ JoinReturns
    \/ \E accept \in BOOLEAN : _save_traces(accept)

Next == Foreground \/ \E w \in Threads : _exec_sweep_thread(w)

Spec == Init /\ [][Next]_vars

\* the plan generator on its own: every call _set_sweep_params(_start,
\* _stop, _points, _hist) with bounded arguments
GenInputs ==
    (-GenRange..GenRange) \X (-GenRange..GenRange) \X (1..GenPoints) \X BOOLEAN

Generate(a) ==
    /\ args' = a
    /\ sweep' = _set_sweep_params(a[1], a[2], a[3], a[4])
    /\ UNCHANGED <<keithley, _data, bufs, thread_running, thread, workers,
                   mode, hlist, meas_state, save_enabled, clicks, gui,
                   io, msg, fout, user_abort>>

PlanNext == \E a \in GenInputs : Generate(a)

PlanSpec == Init /\ [][PlanNext]_vars

\* ------------------------------------------------------------------ claims
\* equality of two fractions <<numerator, denominator>>
RatEq(x, y) == x[1] * y[2] = y[1] * x[2]

Called == args # <<>>

\* C1: at most one worker thread is alive at any time, whatever the
\* foreground does (start, abort, save, reconfigure, handle changes).
C1_OneWorker == Cardinality({w \in Threads : Alive(w)}) <= 1

\* C2, for an abort that arrives during the last plan sample or after it
\* (the last record holds a sample for every plan entry), the instrument
\* handle being attached: once the user has aborted a run whose worker was
\* alive, the state machine is Idle and stays Idle until the user clicks
\* the measure button again.
C2_AbortStaysIdle ==
    (/\ user_abort
     /\ keithley # NoKeithley
     /\ _data # <<>>
     /\ Len(_data[Len(_data)].t) >= Len(sweep))
    => meas_state = "meas_stop"

\* C3, as a finite run decides it: a worker that has consumed every plan
\* entry, the user not having aborted and the handle being attached,
\* finalizes: it ends only by returning after it has posted the click that
\* takes the state machine back to Idle.
C3_ExhaustionFinalizes ==
    [][\A w \in Threads :
          (/\ workers[w].pc \in {"f_zero", "f_seal", "exit"}
           /\ workers[w].plan # <<>>
           /\ workers[w].idx > Len(workers[w].plan)
           /\ ~user_abort
           /\ keithley # NoKeithley
           /\ workers'[w].pc \in Dead)
          => workers'[w].pc = "done"]_vars

\* C4: a click on the measure button in Idle while no sweep plan has been
\* configured is rejected: "Sweep not configured" is shown, the machine is
\* in Idle afterwards, no worker is started, no instrument command is
\* issued and the trace store is unchanged.
C4_UnconfiguredStartRejected ==
    [][((UserClick \/ PostedClick) /\ meas_state = "meas_stop" /\ sweep = <<>>)
          => /\ msg' = "Sweep not configured"
             /\ meas_state' = "meas_stop"
             /\ gui' = "loop"
             /\ io' = <<>>
             /\ UNCHANGED <<workers, thread, thread_running, _data, bufs>>]_vars

C4_Witness ==
    /\ msg = "Sweep not configured"
    /\ meas_state = "meas_stop"
    /\ sweep = <<>>
    /\ thread = 0

\* C5: a click on the measure button in Idle while a plan is configured but
\* no instrument handle is assigned reports the condition to the user and
\* leaves the state machine in Idle.
C5_NoHandleReported ==
    [][(/\ UserClick
        /\ meas_state = "meas_stop"
        /\ _get_sweep_params(sweep) # <<>>
        /\ keithley = NoKeithley)
          => (msg' # "" /\ meas_state' = "meas_stop")]_vars

\* C6: when output on, set bias or measure fails in a run (the handle being
\* attached), the worker ends there, but not before it has commanded the
\* output off and appended the partial record to the trace store.
C6_FailureFinalizes ==
    [][\A w \in Threads :
          (/\ workers[w].pc \in {"on", "bias", "meas"}
           /\ keithley # NoKeithley
           /\ workers'[w].pc = "crashed")
          => /\ Len(_data') = Len(_data) + 1
             /\ \E k \in 1..Len(io') : io'[k].op = "output_off"]_vars

\* C7: every record of the trace store has t, V, I and P of equal length
\* with P[i] = V[i] * I[i], at every moment after it was appended.
C7_RecordsSealed ==
    \A i \in 1..Len(_data) :
        LET m == _data[i]
        IN  /\ Len(m.t) = Len(m.V)
            /\ Len(m.V) = Len(m.I)
            /\ Len(m.I) = Len(m.P)
            /\ \A k \in 1..Len(m.P) : m.P[k] = m.V[k] * m.I[k]

\* C8: for every start, stop and points >= 1 the plan has `points` entries
\* without hysteresis and 2*points-1 entries with hysteresis.
C8_PlanLength ==
    Called => Len(sweep) = IF args[4] THEN 2 * args[3] - 1 ELSE args[3]

C8_Witness == Called /\ args[4] /\ args[3] = 3 /\ Len(sweep) = 5

\* C9 as claimed: with hysteresis the forward sequence is followed by its
\* reverse without the first and the last element, the last value is the
\* second plan value, and (0.0, 1.0, 3) gives [0.0, 0.5, 1.0, 0.5].
C9_BothEndsDropped ==
    (Called /\ args[4]) =>
        LET n == args[3]
        IN  /\ Len(sweep) = IF n = 1 THEN 1 ELSE 2 * n - 2
            /\ \A i \in 1..(n - 2) : sweep[n + i] = sweep[n - i]
            /\ n >= 2 => sweep[Len(sweep)] = sweep[2]
            /\ args = <<0, 1, 3, TRUE>> =>
                  /\ Len(sweep) = 4
                  /\ RatEq(sweep[4], <<1, 2>>)

\* C9 amended: with hysteresis the forward sequence is followed by its
\* reverse without the last element only: the stop value is not replayed,
\* the start value is, the last plan value is the first one, and
\* (0.0, 1.0, 3) gives [0.0, 0.5, 1.0, 0.5, 0.0].
C9_StopDroppedOnly ==
    (Called /\ args[4]) =>
        LET n == args[3]
        IN  /\ Len(sweep) = 2 * n - 1
            /\ RatEq(sweep[1], <<args[1], 1>>)
            /\ n >= 2 => RatEq(sweep[n], <<args[2], 1>>)
            /\ \A i \in 1..(n - 1) : sweep[n + i] = sweep[n - i]
            /\ sweep[Len(sweep)] = sweep[1]
            /\ args = <<0, 1, 3, TRUE>> =>
                  /\ RatEq(sweep[1], <<0, 1>>)
                  /\ RatEq(sweep[2], <<1, 2>>)
                  /\ RatEq(sweep[3], <<1, 1>>)
                  /\ RatEq(sweep[4], <<1, 2>>)
                  /\ RatEq(sweep[5], <<0, 1>>)

C9_Witness == args = <<0, 1, 3, TRUE>> /\ Len(sweep) = 5

\* C10: a save while the trace store is empty, or is emptied by the save
\* because the plot handle list is empty, writes no file, shows "No
\* measurement data" and leaves the store empty and the state machine as
\* it was.
C10_EmptySaveWritesNothing ==
    [][\A accept \in BOOLEAN :
          (_save_traces(accept) /\ (_data = <<>> \/ hlist = 0))
          => /\ fout' = <<>>
             /\ msg' = "No measurement data"
             /\ _data' = <<>>
             /\ UNCHANGED <<meas_state, gui, workers, thread, thread_running,
                            clicks, save_enabled>>]_vars

\* a run has ended with its record in the store, the plot was reset, and
\* the save found the store empty
C10_Witness ==
    /\ msg = "No measurement data"
    /\ hlist = 0
    /\ _data = <<>>
    /\ \E w \in Threads : workers[w].pc \in {"done", "aborted"}

\* the field names in the order of the dict's keys
C11_Fields == << "t", "V", "I", "P" >>

\* a save that wrote a file: the dialog was accepted on a store that is
\* not empty and whose records all have columns of the length of t
C11_Saved(accept) ==
    /\ _save_traces(accept)
    /\ accept
    /\ _data' # <<>>
    /\ \A i \in 1..Len(_data') : Square(_data'[i])

\* the block as claimed: the names separated by single tabs, the rows
\* tab-separated, a blank separator, nothing else
C11_ClaimedBlock(m) ==
    << "t", "\t", "V", "\t", "I", "\t", "P", "\n" >>
    \o Flatten([i \in 1..Len(m.t) |->
                  << Str(m.t[i]), "\t", Str(m.V[i]), "\t", Str(m.I[i]), "\t",
                     Str(m.P[i]), "\n" >>])
    \o << "\n", "\n" >>

\* the block as written: a marker line "*sweep", every name followed by
\* two tabs, every value followed by one tab, two closing newlines
C11_WrittenBlock(m) ==
    << "*sweep", "\n" >>
    \o Flatten([k \in 1..4 |-> << C11_Fields[k], "\t", "\t" >>])
    \o << "\n" >>
    \o Flatten([i \in 1..Len(m.t) |->
                  Flatten([k \in 1..4 |->
                     << Str((<< m.t, m.V, m.I, m.P >>)[k][i]), "\t" >>])
                  \o << "\n" >>])
    \o << "\n", "\n" >>

\* C11 as claimed: an export of a non-empty store writes, for each record
\* in insertion order, a header line of the names t, V, I, P separated by
\* single tabs, one tab-separated row per sample, a blank separator, and
\* nothing else (checked on stores whose first record holds a sample).
C11_HeaderRowsBlank ==
    [][\A accept \in BOOLEAN :
          (C11_Saved(accept) /\ Len(_data'[1].t) > 0)
          => fout' = Flatten([i \in 1..Len(_data') |-> C11_ClaimedBlock(_data'[i])])]_vars

\* C11 amended: an export of a non-empty store of records with equal-length
\* columns writes, for each record in insertion order, the line "*sweep",
\* a header line with each of t, V, I, P followed by two tabs, one row per
\* sample with each value followed by one tab, and two newlines; nothing
\* else is written.
C11_MarkerHeaderRows ==
    [][\A accept \in BOOLEAN :
          C11_Saved(accept)
          => fout' = Flatten([i \in 1..Len(_data') |-> C11_WrittenBlock(_data'[i])])]_vars

\* two records of different lengths were written
C11_Witness ==
    /\ msg = "Sweep Data Saved"
    /\ Len(_data) = 2
    /\ Len(_data[1].t) # Len(_data[2].t)
    /\ \A i \in 1..2 : Square(_data[i])
    /\ fout # <<>>

\* C12: a run that start accepted and the user has not aborted enters one
\* iteration per plan entry: while the start handler has not even
\* returned (so that no abort can have been requested), the worker's test
\* of the run flag on a plan entry never ends the run.
C12_FlagSetBeforeRead ==
    [][\A w \in Threads :
          (/\ w = thread
           /\ gui = "run_flag"
           /\ workers[w].pc = "iter"
           /\ workers[w].idx <= Len(workers[w].plan)
           /\ workers'[w] # workers[w])
          => workers'[w].pc = "bias"]_vars

\* the quantity swept by the loop worker w has just left: the loop it is
\* in, or the voltage loop when it has passed the second mode test
C13_Swept(w) == IF workers[w].loop = "-" THEN "Voltage" ELSE workers[w].loop

\* C13: on every loop exit, by exhaustion or by cancellation and in both
\* modes, the worker commands zero bias in the quantity it swept and then
\* output off, in that order.
C13_ZeroSweptThenOff ==
    [][\A w \in Threads :
          (/\ workers[w].pc \in {"a_zero", "f_zero"}
           /\ workers[w].plan # <<>>
           /\ workers'[w].pc \in {"aborted", "f_seal"})
          => io' = << SetBias(C13_Swept(w), Zero), Cmd("output_off", Zero) >>]_vars

\* C14: a run that ends by exhaustion or by cancellation has appended
\* exactly one record, behind the records already stored; no other step of
\* a worker removes, adds or reorders records, but for the first step of a
\* run that finds the plot handle list empty.
C14_OneRecordPerRun ==
    [][\A w \in Threads :
          (workers'[w] # workers[w]) =>
             /\ (workers[w].pc \in {"a_seal", "f_seal"}) =>
                   (/\ Len(_data') = Len(_data) + 1
                    /\ SubSeq(_data', 1, Len(_data)) = _data)
             /\ (/\ workers[w].pc \notin {"a_seal", "f_seal"}
                 /\ ~(workers[w].pc = "begin" /\ hlist = 0)) =>
                   (/\ Len(_data') = Len(_data)
                    /\ \A i \in 1..Len(_data) : _data'[i].P = _data[i].P)
             /\ (Alive(w) /\ workers'[w].pc \in {"done", "aborted"}) =>
                   workers[w].recs = 1
             /\ workers'[w].recs <= 1]_vars

\* two runs have ended, one by exhaustion and one by cancellation, and the
\* store holds their two records
C14_Witness ==
    /\ Len(_data) = 2
    /\ \E v, w \in Threads : workers[v].pc = "done" /\ workers[w].pc = "aborted"
    /\ hlist = 1

\* C15: once the abort request has cleared the run flag, the worker enters
\* no further iteration: its next test of the flag ends the loop, so it
\* issues no set-bias for a later plan entry and acquires no sample but
\* the one of the iteration it was in.
C15_NoNewIteration ==
    [][\A w \in Threads :
          (/\ thread_running = "False"
           /\ workers[w].pc = "iter"
           /\ workers[w].idx <= Len(workers[w].plan)
           /\ workers'[w] # workers[w])
          => /\ workers'[w].pc = "a_seal"
             /\ io' = <<>>
             /\ bufs' = bufs]_vars

\* the user's abort came during the first of two samples: the worker has
\* finished that sample and left the loop at the flag test of the second
C15_Witness ==
    /\ user_abort
    /\ thread_running = "False"
    /\ \E w \in Threads :
          /\ workers[w].pc = "a_seal"
          /\ workers[w].idx = 2
          /\ Len(workers[w].plan) = 2
          /\ Len(bufs.t) = 1

\* C16: the pacing delay occurs only between two samples: after the sample
\* of the last plan entry the worker does not sleep.
C16_NoSleepAfterLast ==
    [][\A w \in Threads :
          (/\ workers[w].pc = "meas"
           /\ workers[w].idx = Len(workers[w].plan))
          => workers'[w].pc # "sleep"]_vars

\* C17: while a worker is alive, a step that is not a worker's issues no
\* instrument command.
C17_WorkerOwnsInstrument ==
    [][((\E w \in Threads : Alive(w)) /\ workers' = workers) => io' = <<>>]_vars

\* C18: every accepted start issues the source and compliance commands of
\* the mode selected at that moment, before the worker issues a command.
C18_StartConfigures ==
    [][(thread' = thread + 1)
          => /\ Len(io') = 2
             /\ io'[1].op = IF mode = "Voltage" THEN "voltage_src" ELSE "current_src"
             /\ io'[2].op = IF mode = "Voltage" THEN "current_cmp" ELSE "voltage_cmp"]_vars

\* C19: a change of the mode selector during a run does not alter the run:
\* a worker that has traversed the plan in its voltage loop does not enable
\* the output and traverse the plan again.
C19_OneTraversal ==
    [][\A w \in Threads :
          (workers[w].pc = "m2" /\ workers[w].loop = "Voltage")
          => workers'[w].pc # "on"]_vars

\* C20: a save of a non-empty store whose file dialog is cancelled writes
\* nothing and does not show "Sweep Data Saved".
C20_SavedOnlyAfterWrite ==
    [][(_save_traces(FALSE) /\ _data' # <<>>)
          => (fout' = <<>> /\ msg' # "Sweep Data Saved")]_vars

====
